---- MODULE Spec2Model ----
(***************************************************************************)
(* Model of the requester desktop application: the request file codec      *)
(* (storage.rs), the directory tree scanner (storage.rs), the request      *)
(* executor (client.rs) and the application state controller (main.rs).    *)
(*                                                                         *)
(* A Rust String is a sequence of characters; a character is a one-letter  *)
(* TLA+ string.                                                            *)
(***************************************************************************)
EXTENDS Integers, Sequences, FiniteSets, TLC

VARIABLES
    \* ---- codec (storage.rs: HttpRequest, save_request, load_request) ----
    req,              \* the HttpRequest handed to to_http_string
    content,          \* the text of the request file
    parsed,           \* the Result returned by from_http_string
    cpc,              \* position of the codec scenario
    \* ---- tree scanner (storage.rs: scan_directory, build_tree) ----
    fs,               \* the entries under the base directory, in read_dir order
    tree,             \* the `tree` signal of app()
    \* ---- executor header map (client.rs: execute_request) ----
    req_data,         \* the HttpRequest handed to execute_request
    sent,             \* the HeaderMap handed to the transport
    xpc,              \* position of the executor scenario
    \* ---- application state (main.rs: app) ----
    files,            \* what reading each path of the sidebar gives
    current_request,  \* signal current_request
    current_path,     \* signal current_path
    response,         \* signal response
    loading,          \* signal loading
    send_disabled,    \* the `disabled` attribute of the Send button as last rendered
    tasks,            \* the spawned send tasks, in spawn order
    completed,        \* ids of the tasks that wrote their result, in completion order
    load_result       \* the last select: the path clicked and what load_request returned

codecVars == <<req, content, parsed, cpc>>
treeVars  == <<fs, tree>>
execVars  == <<req_data, sent, xpc>>
appVars   == <<files, current_request, current_path, response, loading,
               send_disabled, tasks, completed, load_result>>
vars      == <<codecVars, treeVars, execVars, appVars>>

(***************************************************************************)
(* Characters and strings                                                  *)
(***************************************************************************)
LF    == "\n"
CR    == "\r"
SP    == " "
COLON == ":"

\* char::is_whitespace, on the characters of the model
IsWhitespace(c) == c \in {SP, LF, CR}

\* char::to_uppercase, on the letters of the model
UpperChar(c) ==
    CASE c = "a" -> "A"
      [] c = "g" -> "G"
      [] c = "o" -> "O"
      [] c = "p" -> "P"
      [] c = "s" -> "S"
      [] c = "t" -> "T"
      [] OTHER -> c

\* str::to_uppercase
to_uppercase(s) == [i \in 1..Len(s) |-> UpperChar(s[i])]

\* index of the first occurrence of character c in s, 0 when there is none
RECURSIVE FindFrom(_, _, _)
FindFrom(s, c, i) ==
    IF i > Len(s) THEN 0
    ELSE IF s[i] = c THEN i
    ELSE FindFrom(s, c, i + 1)

Find(s, c) == FindFrom(s, c, 1)

\* str::lines: the text is cut after each "\n"; a piece loses its final "\n"
\* and then one "\r" before it; a last piece without "\n" is kept as it is;
\* no empty piece follows a final "\n"
RECURSIVE lines(_)
lines(s) ==
    IF Len(s) = 0 THEN <<>>
    ELSE LET n == Find(s, LF)
         IN  IF n = 0 THEN <<s>>
             ELSE LET piece == SubSeq(s, 1, n - 1)
                      line  == IF Len(piece) > 0 /\ piece[Len(piece)] = CR
                               THEN SubSeq(piece, 1, Len(piece) - 1)
                               ELSE piece
                  IN  <<line>> \o lines(SubSeq(s, n + 1, Len(s)))

\* str::trim_start
RECURSIVE trim_start(_)
trim_start(s) ==
    IF Len(s) > 0 /\ IsWhitespace(s[1]) THEN trim_start(Tail(s)) ELSE s

\* str::trim_end
RECURSIVE trim_end(_)
trim_end(s) ==
    IF Len(s) > 0 /\ IsWhitespace(s[Len(s)])
    THEN trim_end(SubSeq(s, 1, Len(s) - 1))
    ELSE s

\* str::trim
trim(s) == trim_end(trim_start(s))

\* str::split_whitespace: the maximal runs of non-whitespace characters
RECURSIVE split_whitespace(_)
split_whitespace(s) ==
    LET t == trim_start(s)
    IN  IF Len(t) = 0 THEN <<>>
        ELSE LET ws  == {i \in 1..Len(t) : IsWhitespace(t[i])}
                 end == IF ws = {} THEN Len(t)
                        ELSE (CHOOSE i \in ws : \A j \in ws : i <= j) - 1
             IN  <<SubSeq(t, 1, end)>> \o split_whitespace(SubSeq(t, end + 1, Len(t)))

\* [&str]::join
RECURSIVE join(_, _)
join(parts, sep) ==
    IF Len(parts) = 0 THEN <<>>
    ELSE IF Len(parts) = 1 THEN parts[1]
    ELSE parts[1] \o sep \o join(Tail(parts), sep)

\* split_once as str::rsplit_once(':') would do it: cut at the last colon
RECURSIVE FindLastFrom(_, _, _)
FindLastFrom(s, c, i) ==
    IF i = 0 THEN 0
    ELSE IF s[i] = c THEN i
    ELSE FindLastFrom(s, c, i - 1)

split_once_last(s) ==
    LET n == FindLastFrom(s, COLON, Len(s))
    IN  IF n = 0 THEN [some |-> FALSE]
        ELSE [some |-> TRUE, k |-> SubSeq(s, 1, n - 1), v |-> SubSeq(s, n + 1, Len(s))]

\* str::split_once(':'): None, or the text before and after the first colon
split_once(s) ==
    LET n == Find(s, COLON)
    IN  IF n = 0 THEN [some |-> FALSE]
        ELSE [some |-> TRUE, k |-> SubSeq(s, 1, n - 1), v |-> SubSeq(s, n + 1, Len(s))]

(***************************************************************************)
(* HttpRequest and its text form                                           *)
(***************************************************************************)
HttpRequest(m, u, h, b) == [method |-> m, url |-> u, headers |-> h, body |-> b]

\* HttpRequest::new
new ==
    HttpRequest(<<"G", "E", "T">>,
                <<"h", "t", "t", "p", "s", ":", "/", "/", "h", "t", "t", "p", "b", "i", "n",
                  ".", "o", "r", "g", "/", "g", "e", "t">>,
                <<>>, <<>>)

codecIdle == req = new /\ content = <<>> /\ parsed = [ok |-> FALSE, err |-> "not loaded"] /\ cpc = "idle"
treeIdle == fs = <<>> /\ tree = <<>>
execIdle == req_data = new /\ sent = <<>> /\ xpc = "idle"
appIdle ==
    /\ files = <<>>
    /\ current_request = new
    /\ current_path = <<>>
    /\ response = <<>>
    /\ loading = FALSE
    /\ send_disabled = FALSE
    /\ tasks = <<>>
    /\ completed = <<>>
    /\ load_result = <<>>

\* the lines "k: v\n" of the headers, in order
RECURSIVE header_lines(_)
header_lines(h) ==
    IF Len(h) = 0 THEN <<>>
    ELSE h[1][1] \o <<COLON, SP>> \o h[1][2] \o <<LF>> \o header_lines(Tail(h))

\* to_http_string without the blank line between the headers and the body
to_http_string_no_separator(r) ==
    r.method \o <<SP>> \o r.url \o <<LF>> \o header_lines(r.headers) \o r.body

\* HttpRequest::to_http_string
to_http_string(r) ==
    r.method \o <<SP>> \o r.url \o <<LF>> \o header_lines(r.headers) \o <<LF>> \o r.body

Ok(v)  == [ok |-> TRUE, val |-> v]
Err(e) == [ok |-> FALSE, err |-> e]

\* the loop over the lines after the first: the state is (headers, body, reading_body)
RECURSIVE read_lines(_, _, _, _)
read_lines(ls, headers, body, reading_body) ==
    IF Len(ls) = 0 THEN [headers |-> headers, body |-> body]
    ELSE LET line == ls[1]
             kv   == split_once(line)
         IN  IF reading_body
             THEN read_lines(Tail(ls), headers, body \o line \o <<LF>>, TRUE)
             ELSE IF Len(trim(line)) = 0
             THEN read_lines(Tail(ls), headers, body, TRUE)
             ELSE IF kv.some
             THEN read_lines(Tail(ls), Append(headers, <<trim(kv.k), trim(kv.v)>>), body, FALSE)
             ELSE read_lines(Tail(ls), headers, body, FALSE)

\* what becomes of the collected body text
finish_body(body) == trim_end(body)

\* from_http_string rejecting a header line that has no colon
from_http_string_strict(s) ==
    LET ls == lines(s)
        sep == {i \in 2..Len(ls) : Len(trim(ls[i])) = 0}
    IN  IF Len(ls) = 0 THEN Err("Empty file")
        ELSE IF Len(split_whitespace(ls[1])) < 2 THEN Err("Invalid first line")
        ELSE IF \E i \in 2..Len(ls) :
                  /\ \A j \in sep : i < j
                  /\ ~split_once(ls[i]).some
             THEN Err("Invalid header line")
        ELSE LET parts == split_whitespace(ls[1])
                 rest  == read_lines(Tail(ls), <<>>, <<>>, FALSE)
             IN  Ok(HttpRequest(to_uppercase(parts[1]), join(Tail(parts), <<SP>>),
                                rest.headers, finish_body(rest.body)))

\* HttpRequest::from_http_string
from_http_string(s) ==
    LET ls == lines(s)
    IN  IF Len(ls) = 0 THEN Err("Empty file")
        ELSE LET parts == split_whitespace(ls[1])
             IN  IF Len(parts) < 2 THEN Err("Invalid first line")
                 ELSE LET rest == read_lines(Tail(ls), <<>>, <<>>, FALSE)
                      IN  Ok(HttpRequest(to_uppercase(parts[1]),
                                         join(Tail(parts), <<SP>>),
                                         rest.headers,
                                         finish_body(rest.body)))

(***************************************************************************)
(* Codec scenario: a record is saved and read back (save_request, then     *)
(* load_request), or a file with any text is read (load_request).          *)
(***************************************************************************)
\* the characters the records and files of the model are written with
Alphabet == {"a", "A", SP, COLON, LF, CR}

\* bound: total number of characters in a record's strings, plus its headers
MaxSize == 4
\* bound: number of characters in a request file
MaxText == 7

RECURSIVE HeaderChars(_)
HeaderChars(h) ==
    IF Len(h) = 0 THEN 0 ELSE 1 + Len(h[1][1]) + Len(h[1][2]) + HeaderChars(Tail(h))

\* the size of a record: its characters, and one for each header
Size(r) == Len(r.method) + Len(r.url) + Len(r.body) + HeaderChars(r.headers)

NoResult == [ok |-> FALSE, err |-> "not loaded"]

RoundTripInit ==
    /\ req = [method |-> <<>>, url |-> <<>>, headers |-> <<>>, body |-> <<>>]
    /\ content = <<>>
    /\ parsed = NoResult
    /\ cpc = "record"
    /\ treeIdle /\ execIdle /\ appIdle

DecodeInit ==
    /\ req = new
    /\ content = <<>>
    /\ parsed = NoResult
    /\ cpc = "file"
    /\ treeIdle /\ execIdle /\ appIdle

\* the editing handlers of app(): each stores the edited value of one field
\* (method, url, body, a header's name or value), or a new header row
edit ==
    /\ cpc = "record"
    /\ Size(req) < MaxSize
    /\ \E c \in Alphabet :
         \/ req' = [req EXCEPT !.method = Append(@, c)]
         \/ req' = [req EXCEPT !.url = Append(@, c)]
         \/ req' = [req EXCEPT !.body = Append(@, c)]
         \/ req' = [req EXCEPT !.headers = Append(@, <<<<>>, <<>>>>)]
         \/ \E i \in 1..Len(req.headers) :
              req' = [req EXCEPT !.headers[i][1] = Append(@, c)]
         \/ \E i \in 1..Len(req.headers) :
              req' = [req EXCEPT !.headers[i][2] = Append(@, c)]
    /\ UNCHANGED <<content, parsed, cpc, treeVars, execVars, appVars>>

\* a request file is written outside the application, one character at a time
write_file ==
    /\ cpc = "file"
    /\ Len(content) < MaxText
    /\ \E c \in Alphabet : content' = Append(content, c)
    /\ UNCHANGED <<req, parsed, cpc, treeVars, execVars, appVars>>

\* save_request: the file gets the text form of the record
save_request ==
    /\ cpc = "record"
    /\ content' = to_http_string(req)
    /\ cpc' = "saved"
    /\ UNCHANGED <<req, parsed, treeVars, execVars, appVars>>

\* load_request: the text of the file is decoded
load_request ==
    /\ cpc \in {"saved", "file"}
    /\ parsed' = from_http_string(content)
    /\ cpc' = IF cpc = "saved" THEN "reloaded" ELSE "loaded"
    /\ UNCHANGED <<req, content, treeVars, execVars, appVars>>

RoundTripNext == edit \/ save_request \/ load_request
RoundTripSpec == RoundTripInit /\ [][RoundTripNext]_vars

DecodeNext == write_file \/ load_request
DecodeSpec == DecodeInit /\ [][DecodeNext]_vars

(***************************************************************************)
(* Directory tree scanner                                                   *)
(*                                                                         *)
(* A path is the sequence of names below the base directory.  fs lists the *)
(* entries below the base directory in the order read_dir gives them.      *)
(***************************************************************************)
\* the byte of a character, for the characters file names are written with
Code(c) ==
    CASE c = "." -> 46
      [] c = "a" -> 97
      [] c = "b" -> 98
      [] c = "e" -> 101
      [] c = "n" -> 110
      [] c = "q" -> 113
      [] c = "r" -> 114
      [] c = "t" -> 116
      [] c = "x" -> 120
      [] c = "z" -> 122

\* str::cmp: the order of the first byte that differs, else of the lengths
RECURSIVE str_cmp(_, _)
str_cmp(a, b) ==
    IF Len(a) = 0 /\ Len(b) = 0 THEN "Equal"
    ELSE IF Len(a) = 0 THEN "Less"
    ELSE IF Len(b) = 0 THEN "Greater"
    ELSE IF Code(a[1]) < Code(b[1]) THEN "Less"
    ELSE IF Code(a[1]) > Code(b[1]) THEN "Greater"
    ELSE str_cmp(Tail(a), Tail(b))

\* Path::extension: the text after the last dot of the name; none when the
\* name has no dot or only a leading one
extension(name) ==
    LET n == FindLastFrom(name, ".", Len(name))
    IN  IF n <= 1 THEN [some |-> FALSE]
        ELSE [some |-> TRUE, ext |-> SubSeq(name, n + 1, Len(name))]

REQ == <<"r", "e", "q">>

File(name, path) == [kind |-> "File", name |-> name, path |-> path]
Folder(name, path, children) ==
    [kind |-> "Folder", name |-> name, path |-> path, children |-> children]

\* the comparison of two nodes by name alone
node_cmp_by_name(a, b) == str_cmp(a.name, b.name)

\* the closure given to sort_by: folders first, then by name
node_cmp(a, b) ==
    IF a.kind = "Folder" /\ b.kind = "File" THEN "Less"
    ELSE IF a.kind = "File" /\ b.kind = "Folder" THEN "Greater"
    ELSE str_cmp(a.name, b.name)

\* x put into the sorted sequence s, after the elements that are not greater
RECURSIVE insert_sorted(_, _)
insert_sorted(s, x) ==
    IF Len(s) = 0 THEN <<x>>
    ELSE IF node_cmp(x, s[1]) = "Less" THEN <<x>> \o s
    ELSE <<s[1]>> \o insert_sorted(Tail(s), x)

\* slice::sort_by: a stable sort
RECURSIVE sort_by(_)
sort_by(s) ==
    IF Len(s) = 0 THEN <<>>
    ELSE insert_sorted(sort_by(SubSeq(s, 1, Len(s) - 1)), s[Len(s)])

ROOT_NAME == <<"r", "e", "q", "u", "e", "s", "t", "e", "r">>

\* Path::is_dir
is_dir(disk, path) ==
    \/ path = <<>>
    \/ \E i \in 1..Len(disk) :
         disk[i].path = path /\ disk[i].kind \in {"dir", "unreadable_dir"}

\* fs::read_dir(path), flattened: the paths of the entries of the directory,
\* none when it cannot be read
read_dir(disk, path) ==
    IF \E i \in 1..Len(disk) : disk[i].path = path /\ disk[i].kind = "unreadable_dir"
    THEN <<>>
    ELSE LET inside == SelectSeq(disk, LAMBDA e : /\ Len(e.path) = Len(path) + 1
                                                  /\ SubSeq(e.path, 1, Len(path)) = path)
         IN  [i \in 1..Len(inside) |-> inside[i].path]

\* build_tree
RECURSIVE build_tree(_, _)
build_tree(disk, path) ==
    LET name == IF Len(path) = 0 THEN ROOT_NAME ELSE path[Len(path)]
    IN  IF is_dir(disk, path)
        THEN LET entries == read_dir(disk, path)
                 kept    == SelectSeq(entries,
                                LAMBDA p : \/ is_dir(disk, p)
                                           \/ LET ext == extension(p[Len(p)])
                                              IN  ext.some /\ ext.ext = REQ)
                 children == [i \in 1..Len(kept) |-> build_tree(disk, kept[i])]
             IN  Folder(name, path, sort_by(children))
        ELSE File(name, path)

\* scan_directory: the base directory is created when missing, then walked
scan_directory(disk) == build_tree(disk, <<>>)

\* the names the entries of the model are given
NamePool ==
    {<<"z">>, <<"a", ".", "r", "e", "q">>, <<"b", ".", "r", "e", "q">>,
     <<"n", ".", "t", "x", "t">>}

\* bound: number of entries below the base directory
MaxEntries == 3

TreeInit ==
    /\ fs = <<>>
    /\ tree = scan_directory(<<>>)
    /\ codecIdle /\ execIdle /\ appIdle

\* a file or a directory is created, outside the application, in the base
\* directory or in a directory below it
create_entry ==
    /\ Len(fs) < MaxEntries
    /\ \E parent \in {<<>>} \cup {fs[i].path : i \in {j \in 1..Len(fs) : fs[j].kind # "file"}},
          name \in NamePool,
          kind \in {"file", "dir", "unreadable_dir"} :
         /\ \A i \in 1..Len(fs) : fs[i].path # Append(parent, name)
         /\ fs' = Append(fs, [path |-> Append(parent, name), kind |-> kind])
    /\ UNCHANGED <<tree, codecVars, execVars, appVars>>

\* on_refresh_tree: the tree signal gets a fresh scan
on_refresh_tree ==
    /\ tree' = scan_directory(fs)
    /\ UNCHANGED <<fs, codecVars, execVars, appVars>>

TreeNext == create_entry \/ on_refresh_tree
TreeSpec == TreeInit /\ [][TreeNext]_vars

(***************************************************************************)
(* Properties of the tree scanner                                          *)
(***************************************************************************)
\* a <= b in the lexicographic order of the bytes
LexLeq(a, b) ==
    \/ Len(a) <= Len(b) /\ SubSeq(b, 1, Len(a)) = a
    \/ \E k \in 1..Len(a) :
         /\ k <= Len(b)
         /\ SubSeq(a, 1, k - 1) = SubSeq(b, 1, k - 1)
         /\ Code(a[k]) < Code(b[k])

\* the children of the folder are in order, and so are those of every folder
\* below it
RECURSIVE Ordered(_)
Ordered(node) ==
    node.kind = "Folder" =>
        /\ \A i, j \in 1..Len(node.children) :
             i < j =>
                /\ ~(node.children[i].kind = "File" /\ node.children[j].kind = "Folder")
                /\ node.children[i].kind = node.children[j].kind =>
                       LexLeq(node.children[i].name, node.children[j].name)
        /\ \A i \in 1..Len(node.children) : Ordered(node.children[i])

\* C5: in the tree of every scan, in every folder at every depth, the
\* folders come before the files and each group is in ascending order of name.
TreeOrdered == Ordered(tree)

\* a scan that had to reorder: the base directory lists a file first and a
\* directory later, and the folder holds a node of its own
TreeOrderedWitness ==
    /\ tree.kind = "Folder"
    /\ Len(tree.children) >= 2
    /\ tree.children[1].kind = "Folder"
    /\ Len(tree.children[1].children) >= 1
    /\ tree.children[2].kind = "File"
    /\ Len(fs) >= 2
    /\ fs[1].path = tree.children[2].path

(***************************************************************************)
(* Request executor: the header map handed to the transport                *)
(***************************************************************************)
\* u8::to_ascii_lowercase, on the characters of the model
LowerChar(c) == IF c = "A" THEN "a" ELSE c

\* HeaderName::from_str: a non-empty token, stored in lower case
header_name_from_str(k) ==
    IF Len(k) > 0 /\ \A i \in 1..Len(k) : k[i] \in {"a", "A"}
    THEN Ok([i \in 1..Len(k) |-> LowerChar(k[i])])
    ELSE Err("invalid HTTP header name")

\* HeaderValue::from_str: visible characters and spaces, no line break
header_value_from_str(v) ==
    IF \A i \in 1..Len(v) : v[i] \notin {LF, CR}
    THEN Ok(v)
    ELSE Err("failed to parse header value")

\* HeaderMap::insert: the value replaces every value the name had
header_map_insert(map, name, value) ==
    Append(SelectSeq(map, LAMBDA e : e[1] # name), <<name, value>>)

\* the loop of execute_request over the headers of the record
RECURSIVE build_headers(_, _)
build_headers(h, map) ==
    IF Len(h) = 0 THEN map
    ELSE LET name  == header_name_from_str(h[1][1])
             value == header_value_from_str(h[1][2])
         IN  IF name.ok /\ value.ok
             THEN build_headers(Tail(h), header_map_insert(map, name.val, value.val))
             ELSE build_headers(Tail(h), map)

\* bound: the size (Size) of the record handed to execute_request
MaxHeaderSize == 5

EmptyRequest == HttpRequest(<<>>, <<>>, <<>>, <<>>)

ExecInit ==
    /\ req_data = EmptyRequest
    /\ sent = <<>>
    /\ xpc = "editing"
    /\ codecIdle /\ treeIdle /\ appIdle

\* on_change of HeadersEditor: a new row, or a character more in a name or a value
on_change ==
    /\ xpc = "editing"
    /\ Size(req_data) < MaxHeaderSize
    /\ \/ req_data' = [req_data EXCEPT !.headers = Append(@, <<<<>>, <<>>>>)]
       \/ \E c \in Alphabet, i \in 1..Len(req_data.headers) :
            req_data' = [req_data EXCEPT !.headers[i][1] = Append(@, c)]
       \/ \E c \in Alphabet, i \in 1..Len(req_data.headers) :
            req_data' = [req_data EXCEPT !.headers[i][2] = Append(@, c)]
    /\ UNCHANGED <<sent, xpc, codecVars, treeVars, appVars>>

\* execute_request, up to the call of the transport
execute_request_headers ==
    /\ xpc = "editing"
    /\ sent' = build_headers(req_data.headers, <<>>)
    /\ xpc' = "sent"
    /\ UNCHANGED <<req_data, codecVars, treeVars, appVars>>

ExecNext == on_change \/ execute_request_headers
ExecSpec == ExecInit /\ [][ExecNext]_vars

\* the entries of the record that can be encoded, as the transport names them
Encodable(h) ==
    LET ok == SelectSeq(h, LAMBDA e : /\ header_name_from_str(e[1]).ok
                                      /\ header_value_from_str(e[2]).ok)
    IN  [i \in 1..Len(ok) |-> <<header_name_from_str(ok[i][1]).val, ok[i][2]>>]

Count(seq, x) == Cardinality({i \in 1..Len(seq) : seq[i] = x})

\* C10 as claimed: the transport is handed exactly the encodable entries of
\* the record, each as many times as the record holds it; two entries with
\* the same name are both sent.
SentExactlyEncodable ==
    xpc = "sent" =>
        \A e \in {sent[i] : i \in 1..Len(sent)}
                 \cup {Encodable(req_data.headers)[i] :
                          i \in 1..Len(Encodable(req_data.headers))} :
            Count(sent, e) = Count(Encodable(req_data.headers), e)

(***************************************************************************)
(* Application state controller (main.rs: app)                             *)
(***************************************************************************)
Some(v) == <<v>>
None    == <<>>

\* reqwest::Method::from_str: a non-empty token
method_from_str(m) ==
    IF Len(m) > 0 /\ \A i \in 1..Len(m) : ~IsWhitespace(m[i]) /\ m[i] # COLON
    THEN Ok(m)
    ELSE Err("Invalid method")

\* the request files of the sidebar
Paths == {"ok.req", "short.req", "gone.req", "odd.req"}

\* "post u\nk: v\n\nb"
GoodText ==
    <<"p", "o", "s", "t", SP, "u", LF, "k", COLON, SP, "v", LF, LF, "b">>
\* "GET": a first line of one token
ShortText == <<"G", "E", "T">>
\* "g:t u": decodes, to a method that is no token
OddText == <<"g", COLON, "t", SP, "u">>

Readable(text) == [readable |-> TRUE, text |-> text]
Unreadable == [readable |-> FALSE]

\* fs::read_to_string
read_to_string(disk, path) ==
    IF disk[path].readable THEN Ok(disk[path].text) ELSE Err("No such file")

\* storage::load_request
load_request_at(disk, path) ==
    LET text == read_to_string(disk, path)
    IN  IF text.ok THEN from_http_string(text.val) ELSE Err(text.err)

\* the results the transport can give a request
Response(status) ==
    [status |-> status, status_text |-> "", headers |-> <<>>, body |-> <<>>]

TransportResults ==
    {Ok(Response("200")), Err("error sending request")}

\* bound: number of send tasks spawned
MaxTasks == 2

Init ==
    /\ files = [p \in Paths |->
                  CASE p = "ok.req" -> Readable(GoodText)
                    [] p = "short.req" -> Readable(ShortText)
                    [] p = "odd.req" -> Readable(OddText)
                    [] OTHER -> Unreadable]
    /\ current_request = new
    /\ current_path = None
    /\ response = None
    /\ loading = FALSE
    /\ send_disabled = FALSE
    /\ tasks = <<>>
    /\ completed = <<>>
    /\ load_result = None
    /\ codecIdle /\ treeIdle /\ execIdle

\* on_select_file with the path set whatever load_request returned
select_file_keeping_path(cur, path, res) ==
    IF res.ok THEN [request |-> res.val, path |-> Some(path)]
    ELSE [request |-> cur.request, path |-> Some(path)]

\* the body of on_select_file: what the request and the path become
select_file(cur, path, res) ==
    IF res.ok THEN [request |-> res.val, path |-> Some(path)]
    ELSE cur

\* on_select_file: a file of the sidebar is clicked
on_select_file ==
    \E path \in Paths :
        LET res == load_request_at(files, path)
            now == select_file([request |-> current_request, path |-> current_path],
                               path, res)
        IN  /\ load_result' = Some([path |-> path, res |-> res])
            /\ current_request' = now.request
            /\ current_path' = now.path
            /\ UNCHANGED <<files, response, loading, send_disabled, tasks, completed,
                           codecVars, treeVars, execVars>>

\* on_save: the current request is written to the current path, when there
\* is one; a failure of the write is dropped
on_save ==
    /\ current_path # None
    /\ \/ files' = [files EXCEPT ![current_path[1]] =
                       Readable(to_http_string(current_request))]
       \/ files' = files
    /\ UNCHANGED <<current_request, current_path, response, loading, send_disabled,
                   tasks, completed, load_result, codecVars, treeVars, execVars>>

\* the Send button is drawn again: it is disabled while loading
render ==
    /\ send_disabled' = loading
    /\ UNCHANGED <<files, current_request, current_path, response, loading, tasks,
                   completed, load_result, codecVars, treeVars, execVars>>

\* on_send: a click on the enabled Send button spawns a task
on_send ==
    /\ ~send_disabled
    /\ Len(tasks) < MaxTasks
    /\ tasks' = Append(tasks, [pc |-> "spawned"])
    /\ UNCHANGED <<files, current_request, current_path, response, loading,
                   send_disabled, completed, load_result, codecVars, treeVars, execVars>>

\* the end of a send task dropping an error instead of storing it
finish_unless_err(st, res) ==
    IF res.ok THEN [response |-> Some(res), loading |-> FALSE] ELSE st

\* the end of a send task keeping a result already in the slot
finish_first_wins(st, res) ==
    IF st.response = None THEN [response |-> Some(res), loading |-> FALSE]
    ELSE [response |-> st.response, loading |-> FALSE]

\* the end of a send task: the result is stored and the flag cleared
finish(st, res) == [response |-> Some(res), loading |-> FALSE]

\* the tasks waiting for the transport
Awaiting == {t \in 1..Len(tasks) : tasks[t].pc = "awaiting"}

\* a send task runs up to the await of the transport: the flag is set and
\* the current request read; with a method that is no token execute_request
\* returns at once and the task ends without waiting
task_start(t) ==
    /\ tasks[t].pc = "spawned"
    /\ LET method == method_from_str(current_request.method)
           res    == Err(method.err)
           end    == finish([response |-> response, loading |-> TRUE], res)
       IN  IF method.ok
           THEN /\ tasks' = [tasks EXCEPT ![t] =
                               [pc |-> "awaiting", req |-> current_request,
                                overlaps |-> Awaiting # {}]]
                /\ loading' = TRUE
                /\ UNCHANGED <<response, completed>>
           ELSE /\ tasks' = [tasks EXCEPT ![t] =
                               [pc |-> "done", req |-> current_request,
                                overlaps |-> Awaiting # {}, res |-> res]]
                /\ response' = end.response
                /\ loading' = end.loading
                /\ completed' = Append(completed, t)
    /\ UNCHANGED <<files, current_request, current_path, send_disabled, load_result,
                   codecVars, treeVars, execVars>>

\* the transport resolves and the task runs to its end
task_complete(t) ==
    /\ tasks[t].pc = "awaiting"
    /\ \E res \in TransportResults :
         LET end == finish([response |-> response, loading |-> loading], res)
         IN  /\ tasks' = [tasks EXCEPT ![t] =
                            [pc |-> "done", req |-> tasks[t].req,
                             overlaps |-> tasks[t].overlaps, res |-> res]]
             /\ response' = end.response
             /\ loading' = end.loading
             /\ completed' = Append(completed, t)
    /\ UNCHANGED <<files, current_request, current_path, send_disabled, load_result,
                   codecVars, treeVars, execVars>>

Next ==
    \/ on_select_file
    \/ on_save
    \/ render
    \/ on_send
    \/ \E t \in 1..Len(tasks) : task_start(t)
    \/ \E t \in 1..Len(tasks) : task_complete(t)

Spec == Init /\ [][Next]_vars

(***************************************************************************)
(* Properties of the application state controller                          *)
(***************************************************************************)
\* C6 as claimed: whenever a send task is waiting for the transport, the
\* loading flag is true.
LoadingWhileAwaiting ==
    (\E t \in 1..Len(tasks) : tasks[t].pc = "awaiting") => loading

\* C7: a send task that ends, whatever its result (a response, a transport
\* error, an invalid method), ends having stored that result in the response
\* slot and with the loading flag false.
TaskEndStoresResult ==
    [][\A t \in 1..Len(tasks) :
         (tasks[t].pc # "done" /\ tasks'[t].pc = "done") =>
            /\ response' = Some(tasks'[t].res)
            /\ loading' = FALSE]_vars

\* a task that ended with an error: the error is in the slot, the flag is false
TaskEndWitness ==
    \E t \in 1..Len(tasks) :
        /\ tasks[t].pc = "done"
        /\ ~tasks[t].res.ok
        /\ response = Some(tasks[t].res)
        /\ ~loading

\* C8: the response slot holds the result of the task that ended last,
\* whichever was started first; a task that started while another was waiting
\* cancels nothing: both end and the later end wins the slot.
LastWriteWins ==
    /\ Len(completed) > 0 => response = Some(tasks[completed[Len(completed)]].res)
    /\ Len(completed) = 0 => response = None
    /\ \A t \in 1..Len(tasks) :
         tasks[t].pc = "done" <=> \E i \in 1..Len(completed) : completed[i] = t

\* two tasks waited for the transport together (one began while the other
\* was waiting), the second spawned ended first, the first ended last with
\* another result, and the slot holds it
LastWriteWinsWitness ==
    /\ Len(tasks) >= 2
    /\ completed = <<2, 1>>
    /\ tasks[1].overlaps \/ tasks[2].overlaps
    /\ tasks[1].res # tasks[2].res
    /\ response = Some(tasks[1].res)

Has(s, c) == \E i \in 1..Len(s) : s[i] = c

Trimmed(s) == Len(s) = 0 \/ (~IsWhitespace(s[1]) /\ ~IsWhitespace(s[Len(s)]))

\* the number of maximal runs of non-whitespace characters in s
TokenCount(s) ==
    Cardinality({i \in 1..Len(s) :
                   ~IsWhitespace(s[i]) /\ (i = 1 \/ IsWhitespace(s[i - 1]))})

\* the text before the first "\n"
FirstLine(s) == IF Find(s, LF) = 0 THEN s ELSE SubSeq(s, 1, Find(s, LF) - 1)

\* the precondition the claim states: no colon in a header name, no newline
\* in the method or the URL
ClaimedPrecondition(r) ==
    /\ \A i \in 1..Len(r.headers) : ~Has(r.headers[i][1], COLON)
    /\ ~Has(r.method, LF)
    /\ ~Has(r.url, LF)

\* a record the decoder gives back as it was: the method is one token that
\* upper-casing leaves alone, the URL is one or more tokens with single
\* spaces between them, header names and values have no newline and no
\* whitespace at either end, names have no colon, and the body has no
\* whitespace at its end and no "\r\n"
WellFormed(r) ==
    /\ Len(r.method) > 0
    /\ \A i \in 1..Len(r.method) : ~IsWhitespace(r.method[i])
    /\ to_uppercase(r.method) = r.method
    /\ Len(r.url) > 0
    /\ Trimmed(r.url)
    /\ \A i \in 1..Len(r.url) :
         IsWhitespace(r.url[i]) => (r.url[i] = SP /\ ~IsWhitespace(r.url[i + 1]))
    /\ \A i \in 1..Len(r.headers) :
         /\ ~Has(r.headers[i][1], COLON)
         /\ ~Has(r.headers[i][1], LF) /\ Trimmed(r.headers[i][1])
         /\ ~Has(r.headers[i][2], LF) /\ Trimmed(r.headers[i][2])
    /\ Len(r.body) > 0 => ~IsWhitespace(r.body[Len(r.body)])
    /\ \A i \in 1..(Len(r.body) - 1) : ~(r.body[i] = CR /\ r.body[i + 1] = LF)

DecodeFailsExactlyOnFirstLine ==
    cpc = "loaded" =>
        (~parsed.ok <=> (Len(content) = 0 \/ TokenCount(FirstLine(content)) < 2))

\* a decoded file whose second line is a header line without a colon
DecodeDropsWitness ==
    /\ cpc = "loaded"
    /\ parsed.ok
    /\ Len(lines(content)) >= 2
    /\ Len(trim(lines(content)[2])) > 0
    /\ ~Has(lines(content)[2], COLON)

\* the index of the separator line: the first empty or all-whitespace line
\* after the first line, or one past the last line when there is none
Separator(ls) ==
    LET blank == {i \in 2..Len(ls) : \A j \in 1..Len(ls[i]) : IsWhitespace(ls[i][j])}
    IN  IF blank = {} THEN Len(ls) + 1 ELSE CHOOSE i \in blank : \A j \in blank : i <= j

\* every line after the separator, each followed by a newline
RECURSIVE JoinedLines(_)
JoinedLines(ls) ==
    IF Len(ls) = 0 THEN <<>> ELSE ls[1] \o <<LF>> \o JoinedLines(Tail(ls))

StripOneNewline(s) ==
    IF Len(s) > 0 /\ s[Len(s)] = LF THEN SubSeq(s, 1, Len(s) - 1) ELSE s

\* C3 as claimed: the decoded body is the lines after the separator, each
\* followed by a newline, with exactly one trailing newline removed and every
\* other trailing character kept.
BodyStripsOneNewline ==
    (cpc = "loaded" /\ parsed.ok) =>
        LET ls == lines(content)
        IN  parsed.val.body =
                StripOneNewline(JoinedLines(SubSeq(ls, Separator(ls) + 1, Len(ls))))

\* the header the line gives: the text before and after its first colon, trimmed
HeaderOf(line) ==
    LET n == CHOOSE i \in 1..Len(line) :
                 line[i] = COLON /\ \A j \in 1..(i - 1) : line[j] # COLON
    IN  <<trim(SubSeq(line, 1, n - 1)), trim(SubSeq(line, n + 1, Len(line)))>>

====
